---- MODULE Spec2Model ----
(***************************************************************************)
(* The two notebooks of the repository as state machines.                  *)
(*                                                                         *)
(*   risc0-security-analysis.ipynb      provable and conjectured soundness *)
(*   risc0-security-analysis-UDR.ipynb  the unique decoding regime         *)
(*                                                                         *)
(* A notebook is a sequence of cells executed by one kernel.  The state is *)
(* the kernel's namespace (the global names the cells assign), the outputs *)
(* the cells have displayed, and the position of the run.  Every cell is   *)
(* one action; a cell that raises halts the run and keeps the names it     *)
(* assigned before raising.  The notebooks compute with Python floats,     *)
(* which are IEEE-754 binary64 numbers: the model computes every float     *)
(* operation exactly and rounds it to the nearest binary64 value, ties to  *)
(* even, as the hardware and math.sqrt do.  math.pow is taken to return    *)
(* the correctly rounded power.  math.log is not computed: where a cell    *)
(* displays math.log(e_IOP, 2) the model records e_IOP itself, of which    *)
(* the displayed value is a strictly increasing function.                  *)
(***************************************************************************)
EXTENDS Integers, Sequences, FiniteSets, TLC

(***************************************************************************)
(* Python's int: natural numbers of any size, as little-endian sequences   *)
(* of limbs below Base, without leading zero limbs.  Each operator hands   *)
(* what it computes to the next one as an argument.                        *)
(***************************************************************************)
LimbBits == 15
Base == 32768

Pow2(n) == 2^n
Max(x, y) == IF x >= y THEN x ELSE y
Min(x, y) == IF x <= y THEN x ELSE y

(* the finished tuple of the first n values of f *)
Tup(f, n) == SubSeq(f, 1, n)

RECURSIVE NNorm(_)
NNorm(a) == IF Len(a) = 0 THEN <<>>
            ELSE IF a[Len(a)] = 0 THEN NNorm(SubSeq(a, 1, Len(a) - 1)) ELSE a

RECURSIVE NFromInt(_)
NFromInt(n) == IF n = 0 THEN <<>> ELSE <<n % Base>> \o NFromInt(n \div Base)

Limb(a, i) == IF i >= 1 /\ i <= Len(a) THEN a[i] ELSE 0

(* comparison of the limbs lo..hi, the upper half first *)
RECURSIVE NCmpRange(_, _, _, _)
NCmpUpper(a, b, lo, hi, up) == IF up # 0 THEN up ELSE NCmpRange(a, b, lo, (lo + hi) \div 2)
NCmpRange(a, b, lo, hi) ==
    IF lo = hi THEN (IF a[lo] < b[lo] THEN -1 ELSE IF a[lo] > b[lo] THEN 1 ELSE 0)
    ELSE NCmpUpper(a, b, lo, hi, NCmpRange(a, b, (lo + hi) \div 2 + 1, hi))
NCmp(a, b) == IF Len(a) < Len(b) THEN -1
              ELSE IF Len(a) > Len(b) THEN 1
              ELSE IF Len(a) = 0 THEN 0
              ELSE NCmpRange(a, b, 1, Len(a))

(* the carry out of position i of the digit sums s, each below 2*Base *)
RECURSIVE CarryOut(_, _)
CarryOut(s, i) == IF i = 0 THEN 0
                  ELSE IF s[i] >= Base THEN 1
                  ELSE IF s[i] = Base - 1 THEN CarryOut(s, i - 1)
                  ELSE 0
NAddCarry(s, n) ==
    IF Len(s) = n
    THEN NNorm(Tup([i \in 1..(n + 1) |-> (Limb(s, i) + CarryOut(s, i - 1)) % Base], n + 1))
    ELSE <<>>
NAddLen(a, b, n) == NAddCarry(Tup([i \in 1..n |-> Limb(a, i) + Limb(b, i)], n), n)
NAdd(a, b) == IF Len(a) >= Len(b) THEN NAddLen(a, b, Len(a)) ELSE NAddLen(a, b, Len(b))

(* the borrow out of position i of the digit differences d *)
RECURSIVE BorrowOut(_, _)
BorrowOut(d, i) == IF i = 0 THEN 0
                   ELSE IF d[i] < 0 THEN 1
                   ELSE IF d[i] = 0 THEN BorrowOut(d, i - 1)
                   ELSE 0
NSubBorrow(d, n) ==
    IF Len(d) = n
    THEN NNorm(Tup([i \in 1..n |-> (d[i] - BorrowOut(d, i - 1) + Base) % Base], n))
    ELSE <<>>
(* a - b, for a >= b *)
NSub(a, b) ==
    IF Len(b) <= Len(a)
    THEN NSubBorrow(Tup([i \in 1..Len(a) |-> a[i] - Limb(b, i)], Len(a)), Len(a))
    ELSE <<>>

NShlLimbs(a, n) ==
    IF Len(a) = 0 THEN <<>>
    ELSE Tup([i \in 1..(n + Len(a)) |-> IF i <= n THEN 0 ELSE a[i - n]], n + Len(a))

NMulSmallLen(a, d, n) ==
    NAdd(Tup([i \in 1..n |-> (a[i] * d) % Base], n),
         Tup([i \in 1..(n + 1) |-> IF i = 1 THEN 0 ELSE (a[i - 1] * d) \div Base], n + 1))
NMulSmall(a, d) == IF Len(a) = 0 \/ d = 0 THEN <<>> ELSE NMulSmallLen(a, d, Len(a))

(* the sums over i in lo..hi of the low and of the high halves of a[i]*b[k+1-i] *)
RECURSIVE ColLo(_, _, _, _, _)
ColLo(a, b, k, lo, hi) ==
    IF lo > hi THEN 0
    ELSE IF lo = hi THEN (a[lo] * b[k + 1 - lo]) % Base
    ELSE ColLo(a, b, k, lo, (lo + hi) \div 2) + ColLo(a, b, k, (lo + hi) \div 2 + 1, hi)
RECURSIVE ColHi(_, _, _, _, _)
ColHi(a, b, k, lo, hi) ==
    IF lo > hi THEN 0
    ELSE IF lo = hi THEN (a[lo] * b[k + 1 - lo]) \div Base
    ELSE ColHi(a, b, k, lo, (lo + hi) \div 2) + ColHi(a, b, k, (lo + hi) \div 2 + 1, hi)
NMulCarry(c, w) ==
    IF Len(c) # w THEN <<>> ELSE
    NAdd(NAdd(Tup([k \in 1..w |-> c[k] % Base], w),
              Tup([k \in 1..(w + 1) |-> IF k = 1 THEN 0 ELSE (c[k - 1] \div Base) % Base], w + 1)),
         Tup([k \in 1..(w + 2) |-> IF k <= 2 THEN 0 ELSE c[k - 2] \div (Base * Base)], w + 2))
NMulLen(a, b, n, m) ==
    NMulCarry(Tup([k \in 1..(n + m) |->
                     ColLo(a, b, k, Max(1, k + 1 - m), Min(n, k))
                     + ColHi(a, b, k - 1, Max(1, k - m), Min(n, k - 1))], n + m), n + m)
NMul(a, b) == IF Len(a) = 0 \/ Len(b) = 0 THEN <<>> ELSE NMulLen(a, b, Len(a), Len(b))

NShl(a, n) ==
    IF Len(a) = 0 THEN <<>>
    ELSE IF n = 0 THEN a
    ELSE NShlLimbs(NMulSmall(a, Pow2(n % LimbBits)), n \div LimbBits)

NShrBy(a, w, r, len) ==
    IF len <= 0 THEN <<>>
    ELSE NNorm(Tup([i \in 1..len |->
              (a[i + w] \div Pow2(r)) + (Limb(a, i + w + 1) % Pow2(r)) * Pow2(LimbBits - r)], len))
NShr(a, n) ==
    IF Len(a) = 0 THEN <<>>
    ELSE IF n = 0 THEN a
    ELSE NShrBy(a, n \div LimbBits, n % LimbBits, Len(a) - n \div LimbBits)

NLowBy(a, n, w) ==
    IF w >= Len(a) THEN a ELSE NNorm(SubSeq(a, 1, w) \o <<a[w + 1] % Pow2(n % LimbBits)>>)
(* a mod 2^n *)
NLow(a, n) == IF Len(a) = 0 \/ n = 0 THEN <<>> ELSE NLowBy(a, n, n \div LimbBits)

RECURSIVE IntBitLen(_)
IntBitLen(n) == IF n = 0 THEN 0 ELSE 1 + IntBitLen(n \div 2)
NBitLen(a) == IF Len(a) = 0 THEN 0 ELSE LimbBits * (Len(a) - 1) + IntBitLen(a[Len(a)])

RECURSIVE IntTrailingZeros(_)
IntTrailingZeros(n) == IF n % 2 = 1 THEN 0 ELSE 1 + IntTrailingZeros(n \div 2)
RECURSIVE NTrailingZerosFrom(_, _)
NTrailingZerosFrom(a, i) == IF a[i] = 0 THEN LimbBits + NTrailingZerosFrom(a, i + 1)
                            ELSE IntTrailingZeros(a[i])
NTrailingZeros(a) == NTrailingZerosFrom(a, 1)

NIsOdd(a) == Len(a) > 0 /\ a[1] % 2 = 1

(* one digit of a long division: the largest q < Base with q*b <= r, for
   r < b*Base and b with its top limb at least Base/2, estimated from the
   two top limbs of r *)
RECURSIVE NDigitDown(_, _, _)
NDigitDown(r, b, q) == IF NCmp(NMulSmall(b, q), r) <= 0 THEN q ELSE NDigitDown(r, b, q - 1)
NDigit(r, b) ==
    IF NCmp(r, b) < 0 THEN 0
    ELSE NDigitDown(r, b, Min((Limb(r, Len(b) + 1) * Base + r[Len(b)]) \div b[Len(b)], Base - 1))

(* the digits i..1 of a brought down onto the remainder r:
   <<quotient digits, remainder>> *)
RECURSIVE NDivFrom(_, _, _, _, _)
NDivTake(a, b, i, r1, q, qs) ==
    IF q >= 0 THEN NDivFrom(a, b, i - 1, NSub(r1, NMulSmall(b, q)), <<q>> \o qs) ELSE <<>>
NDivBring(a, b, i, r1, qs) ==
    IF Len(r1) >= 0 THEN NDivTake(a, b, i, r1, NDigit(r1, b), qs) ELSE <<>>
NDivFrom(a, b, i, r, qs) ==
    IF Len(r) + Len(qs) < 0 THEN <<>>
    ELSE IF i = 0 THEN <<qs, r>>
    ELSE NDivBring(a, b, i, NNorm(<<a[i]>> \o r), qs)
NDivUnshift(res, sh) == IF Len(res) = 2 THEN <<NNorm(res[1]), NShr(res[2], sh)>> ELSE <<>>
NDivSkip(an, bn, sh, skip) ==
    NDivUnshift(NDivFrom(an, bn, Len(an) - skip, SubSeq(an, Len(an) - skip + 1, Len(an)), <<>>), sh)
NDivShifted(an, bn, sh) ==
    IF Len(an) < Len(bn) THEN NDivSkip(an, bn, sh, Len(an)) ELSE NDivSkip(an, bn, sh, Len(bn) - 1)
NDivBy(a, b, sh) == IF sh >= 0 THEN NDivShifted(NShl(a, sh), NShl(b, sh), sh) ELSE <<>>
(* <<a div b, a mod b>>, for b # 0 *)
NDivMod(a, b) ==
    IF Len(a) = 0 THEN << <<>>, <<>> >> ELSE NDivBy(a, b, LimbBits - IntBitLen(b[Len(b)]))

(* the floor of the square root, by Newton's iteration from above *)
RECURSIVE NSqrtIter(_, _)
NSqrtStep(a, x, y) == IF NCmp(y, x) >= 0 THEN x ELSE NSqrtIter(a, y)
NSqrtIter(a, x) == NSqrtStep(a, x, NShr(NAdd(x, NDivMod(a, x)[1]), 1))
NISqrt(a) == IF Len(a) = 0 THEN <<>> ELSE NSqrtIter(a, NShl(<<1>>, (NBitLen(a) + 1) \div 2))

NSquare(a) == NMul(a, a)
RECURSIVE NPow(_, _)
NPow(a, n) == IF n = 0 THEN <<1>>
              ELSE IF n % 2 = 0 THEN NSquare(NPow(a, n \div 2))
              ELSE NMul(a, NPow(a, n - 1))

(***************************************************************************)
(* Python's float: IEEE-754 binary64, round to nearest, ties to even.  A   *)
(* float is (-1)^sgn * man * 2^exp with man odd, or zero.                  *)
(***************************************************************************)
MantBits == 53
MinExp == -1074

FZero == [sgn |-> 0, man |-> <<>>, exp |-> 0]
FIsZero(x) == Len(x.man) = 0

FCanonBy(sgn, n, ex, tz) == [sgn |-> sgn, man |-> NShr(n, tz), exp |-> ex + tz]
(* n * 2^ex, exactly *)
FCanon(sgn, n, ex) == IF Len(n) = 0 THEN FZero ELSE FCanonBy(sgn, n, ex, NTrailingZeros(n))

FRoundCut(sgn, q, c, et) ==
    IF c > 0 \/ (c = 0 /\ NIsOdd(q)) THEN FCanon(sgn, NAdd(q, <<1>>), et) ELSE FCanon(sgn, q, et)
FRoundBy(sgn, n, ex, et, sh) ==
    IF sh <= 0 THEN FCanon(sgn, n, ex)
    ELSE FRoundCut(sgn, NShr(n, sh), NCmp(NLow(n, sh), NShl(<<1>>, sh - 1)), et)
FRoundAt(sgn, n, ex, et) == FRoundBy(sgn, n, ex, et, et - ex)
(* n * 2^ex rounded to 53 bits, or to a multiple of 2^MinExp *)
FRound(sgn, n, ex) ==
    IF Len(n) = 0 THEN FZero ELSE FRoundAt(sgn, n, ex, Max(ex + NBitLen(n) - MantBits, MinExp))

FFromInt(n) == IF n < 0 THEN FCanon(1, NFromInt(-n), 0) ELSE FCanon(0, NFromInt(n), 0)
FNeg(x) == IF FIsZero(x) THEN x ELSE [x EXCEPT !.sgn = 1 - x.sgn]

(* the position above the top bit *)
FTop(x) == x.exp + NBitLen(x.man)
FCmpAligned(x, y, lo) == NCmp(NShl(x.man, x.exp - lo), NShl(y.man, y.exp - lo))
FCmpTop(x, y, tx, ty) ==
    IF tx < ty THEN -1 ELSE IF tx > ty THEN 1 ELSE FCmpAligned(x, y, Min(x.exp, y.exp))
(* -1, 0, 1 as |x| is below, equal to, above |y| *)
FCmpMag(x, y) ==
    IF FIsZero(x) THEN (IF FIsZero(y) THEN 0 ELSE -1)
    ELSE IF FIsZero(y) THEN 1
    ELSE FCmpTop(x, y, FTop(x), FTop(y))
FCmp(x, y) ==
    IF FIsZero(x) /\ FIsZero(y) THEN 0
    ELSE IF FIsZero(x) THEN (IF y.sgn = 1 THEN 1 ELSE -1)
    ELSE IF FIsZero(y) THEN (IF x.sgn = 1 THEN -1 ELSE 1)
    ELSE IF x.sgn # y.sgn THEN (IF x.sgn = 1 THEN -1 ELSE 1)
    ELSE IF x.sgn = 0 THEN FCmpMag(x, y) ELSE FCmpMag(y, x)
FLt(x, y) == FCmp(x, y) < 0
FLe(x, y) == FCmp(x, y) <= 0

FAddCmp(x, y, xn, yn, lo, c) ==
    IF x.sgn = y.sgn THEN FRound(x.sgn, NAdd(xn, yn), lo)
    ELSE IF c = 0 THEN FZero
    ELSE IF c > 0 THEN FRound(x.sgn, NSub(xn, yn), lo)
    ELSE FRound(y.sgn, NSub(yn, xn), lo)
FAddAligned(x, y, xn, yn, lo) ==
    IF Len(xn) + Len(yn) = 0 THEN FZero ELSE FAddCmp(x, y, xn, yn, lo, NCmp(xn, yn))
FAddAt(x, y, lo) == FAddAligned(x, y, NShl(x.man, x.exp - lo), NShl(y.man, y.exp - lo), lo)
(* an operand wholly below the rounding position of the other leaves it
   unchanged *)
FAddTop(x, y, tx, ty) ==
    IF tx - ty > MantBits + 2 THEN x
    ELSE IF ty - tx > MantBits + 2 THEN y
    ELSE FAddAt(x, y, Min(x.exp, y.exp))
FAdd(x, y) ==
    IF FIsZero(x) THEN y ELSE IF FIsZero(y) THEN x ELSE FAddTop(x, y, FTop(x), FTop(y))
FSub(x, y) == FAdd(x, FNeg(y))

FMul(x, y) ==
    IF FIsZero(x) \/ FIsZero(y) THEN FZero
    ELSE FRound((x.sgn + y.sgn) % 2, NMul(x.man, y.man), x.exp + y.exp)

(* the quotient to MantBits + 2 bits and a sticky bit for the remainder *)
FDivSticky(x, y, k, qr) ==
    IF Len(qr) # 2 THEN FZero ELSE
    FRound((x.sgn + y.sgn) % 2,
           NAdd(NShl(qr[1], 1), IF Len(qr[2]) = 0 THEN <<>> ELSE <<1>>),
           x.exp - y.exp - k - 1)
FDivBy(x, y, k) == IF k < 0 THEN FZero ELSE FDivSticky(x, y, k, NDivMod(NShl(x.man, k), y.man))
(* x / y, for y # 0: a cell raises ZeroDivisionError before it divides by
   zero *)
FDiv(x, y) ==
    IF FIsZero(x) \/ FIsZero(y) THEN FZero
    ELSE FDivBy(x, y, Max(0, MantBits + 2 + NBitLen(y.man) - NBitLen(x.man)))

(* the root to MantBits + 2 bits and a sticky bit for the remainder *)
FSqrtSticky(n0, r, ex) ==
    IF Len(r) = 0 THEN FZero ELSE
    FRound(0, NAdd(NShl(r, 1), IF NCmp(NMul(r, r), n0) = 0 THEN <<>> ELSE <<1>>), ex)
FSqrtOf(n0, ex) == IF Len(n0) = 0 THEN FZero ELSE FSqrtSticky(n0, NISqrt(n0), ex)
FSqrtBy(x, j) == IF j < 0 THEN FZero ELSE FSqrtOf(NShl(x.man, j), (x.exp - j) \div 2 - 1)
FSqrtEven(x, j0) == FSqrtBy(x, j0 + ((x.exp - j0) % 2))
(* math.sqrt(x), for x >= 0 *)
FSqrt(x) ==
    IF FIsZero(x) THEN FZero ELSE FSqrtEven(x, Max(0, 2 * (MantBits + 2) - NBitLen(x.man)))

(* math.pow(x, n) for an integer n >= 0 *)
FPowInt(x, n) ==
    IF n = 0 THEN FFromInt(1)
    ELSE IF FIsZero(x) THEN FZero
    ELSE FRound((x.sgn * n) % 2, NPow(x.man, n), x.exp * n)

(* the integer part of |x| *)
FTrunc(x) ==
    IF FIsZero(x) THEN <<>>
    ELSE IF x.exp >= 0 THEN NShl(x.man, x.exp) ELSE NShr(x.man, -x.exp)
FIsInt(x) == FIsZero(x) \/ x.exp >= 0
(* math.floor and math.ceil, as the floats their results convert to *)
FFloor(x) ==
    IF FIsInt(x) THEN x
    ELSE IF x.sgn = 0 THEN FCanon(0, FTrunc(x), 0) ELSE FCanon(1, NAdd(FTrunc(x), <<1>>), 0)
FCeil(x) ==
    IF FIsInt(x) THEN x
    ELSE IF x.sgn = 0 THEN FCanon(0, NAdd(FTrunc(x), <<1>>), 0) ELSE FCanon(1, FTrunc(x), 0)

(***************************************************************************)
(* The expressions of the notebooks, operator by operator.  Python ints    *)
(* are integers of the model where they stay small; a Python int that      *)
(* comes out of math.ceil is kept as the integer-valued float it converts  *)
(* to in the float expressions that use it.                                *)
(***************************************************************************)
One == [sgn |-> 0, man |-> <<1>>, exp |-> 0]
Two == [sgn |-> 0, man |-> <<1>>, exp |-> 1]
(* 1/2 *)
Half == [sgn |-> 0, man |-> <<1>>, exp |-> -1]

(* rho = 1 / (1 << k) *)
Rho(k) == FDiv(One, FFromInt(2^k))
(* H = 1 << h *)
TraceLength(h) == 2^h
(* the product taken for the quotient: H * rho *)
DomainSizeTimesRho(H, rho) == FMul(FFromInt(H), rho)
(* D = H / rho *)
DomainSize(H, rho) == FDiv(FFromInt(H), rho)
(* F = math.pow(p, e); p is a Python int, kept as a natural of any size *)
FieldSize(p, e) == FPowInt(FRound(0, p, 0), e)
(* L = C + 4 *)
NumColumns(C) == C + 4

(* alpha = (1 + 1/(2*m)) * math.sqrt(rho) *)
Alpha(m, rho) == FMul(FAdd(One, FDiv(One, FFromInt(2 * m))), FSqrt(rho))
(* alpha = 1 - (1 - rho)/2, the unique decoding notebook *)
AlphaUDR(rho) == FSub(One, FDiv(FSub(One, rho), Two))
(* theta = 1 - alpha *)
Theta(alpha) == FSub(One, alpha)

(* math.pow(rho, 3/2); rho is a power of two, for which rho * sqrt(rho) is
   the correctly rounded value *)
PowThreeHalves(x) == FMul(x, FSqrt(x))
(* the seventh power of m + 1/2 taken for its first *)
ProximityGapLinear(m, rho, D, F) ==
    FDiv(FMul(FDiv(FAdd(FFromInt(m), Half),
                   FMul(FFromInt(3), PowThreeHalves(rho))),
              FPowInt(D, 2)),
         F)
(* e_proximity_gap = pow(m + 1/2, 7) / (3 * pow(rho, 3/2)) * pow(D, 2) / F *)
ProximityGap(m, rho, D, F) ==
    FDiv(FMul(FDiv(FPowInt(FAdd(FFromInt(m), Half), 7),
                   FMul(FFromInt(3), PowThreeHalves(rho))),
              FPowInt(D, 2)),
         F)
(* e_proximity_gap = D / F, the unique decoding notebook *)
ProximityGapUDR(D, F) == FDiv(D, F)
(* math.floor((h + 2) / 4 - 2) *)
FoldingRounds(h) == FFloor(FSub(FDiv(FFromInt(h + 2), FFromInt(4)), Two))
(* (2*m + 1) * (D + 1) * 16 * floor((h + 2)/4 - 2) / (sqrt(rho) * F) *)
FoldTerm(m, rho, h, D, F) ==
    FDiv(FMul(FMul(FMul(FFromInt(2 * m + 1), FAdd(D, One)), FFromInt(16)),
              FoldingRounds(h)),
         FMul(FSqrt(rho), F))
(* the coefficient L - 1/2 of e_proximity_gap left out *)
FRIConstantNoWidth(L, gap, fold) == FAdd(gap, fold)
(* e_FRI_constant = (L - 1/2) * e_proximity_gap + the folding term *)
FRIConstant(L, gap, fold) == FAdd(FMul(FSub(FFromInt(L), Half), gap), fold)
(* the coefficient L - 1/2 of the main notebook taken for L + 1 *)
FRIConstantListDecoding(L, gap) == FMul(FSub(FFromInt(L), Half), gap)
(* e_FRI_constant = (L + 1) * e_proximity_gap, the unique decoding notebook *)
FRIConstantUDR(L, gap) == FMul(FFromInt(L + 1), gap)
(* the base 1 - theta of e_FRI_queries taken for theta *)
FRIQueriesOfTheta(theta, s) == FPowInt(theta, s)
(* e_FRI_queries = math.pow(1 - theta, s) *)
FRIQueries(theta, s) == FPowInt(FSub(One, theta), s)
(* e_FRI = e_FRI_constant + e_FRI_queries *)
FRIError(constant, queries) == FAdd(constant, queries)

(* the two points added to H left out: H / D, which is rho *)
RhoPlusNoTwo(H, D) == FDiv(FFromInt(H), D)
(* rho_plus = (H + 2) / D *)
RhoPlus(H, D) == FDiv(FFromInt(H + 2), D)
(* the check with the square root left out: theta < 1 - rho_plus *)
MNotTooLargeNoSqrt(theta, rho_plus) == FLt(theta, FSub(One, rho_plus))
(* assert theta < 1 - math.sqrt(rho_plus) *)
MNotTooLarge(theta, rho_plus) == FLt(theta, FSub(One, FSqrt(rho_plus)))
(* the divisor 2 * (alpha / math.sqrt(rho_plus) - 1) *)
MPlusDivisor(alpha, rho_plus) == FMul(Two, FSub(FDiv(alpha, FSqrt(rho_plus)), One))
(* m_plus = math.ceil(1 / divisor) *)
MPlus(divisor) == FCeil(FDiv(One, divisor))
(* assert theta <= 1 - math.sqrt(rho_plus) * (1 + 1/(2*m_plus)) *)
MPlusBound(theta, rho_plus, mp) ==
    FLe(theta, FSub(One, FMul(FSqrt(rho_plus), FAdd(One, FDiv(One, FMul(Two, mp))))))

(* L_plus = (m_plus + 1/2) / math.sqrt(rho_plus) *)
LPlus(mp, rho_plus) == FDiv(FAdd(mp, Half), FSqrt(rho_plus))
(* e_ALI = L_plus * C / F *)
ALI(L_plus, C, F) == FDiv(FMul(L_plus, FFromInt(C)), F)
(* the divisor F - H - D of e_DEEP *)
DEEPDivisor(H, D, F) == FSub(FSub(F, FFromInt(H)), D)
(* e_DEEP = L_plus * (4*(H + 1) + (H - 1)) / (F - H - D) *)
DEEP(L_plus, H, D, F) ==
    FDiv(FMul(L_plus, FFromInt(4 * (H + 1) + (H - 1))), DEEPDivisor(H, D, F))
(* the multiplicity 15 of e_PLOOKUP taken for 5: e * 15 * H / F *)
PLONKFifteen(e, H, F) == FDiv(FFromInt(e * 15 * H), F)
(* e_PLONK = e * 5 * H / F *)
PLONK(e, H, F) == FDiv(FFromInt(e * 5 * H), F)
(* e_PLOOKUP = e * 15 * H / F *)
PLOOKUP(e, H, F) == FDiv(FFromInt(e * 15 * H), F)
(* e_IOP = e_FRI + e_ALI + e_DEEP + e_PLONK + e_PLOOKUP *)
IOPError(fri, ali, deep, plonk, plookup) == FAdd(FAdd(FAdd(FAdd(fri, ali), deep), plonk), plookup)

(* theta = 1 - rho - epsilon *)
ThetaConjectured(rho, epsilon) == FSub(FSub(One, rho), epsilon)
(* the check with rho_plus left out: theta < 1 *)
EpsilonNotTooSmallNoRhoPlus(theta, rho_plus) == FLt(theta, One)
(* assert theta < 1 - rho_plus *)
EpsilonNotTooSmall(theta, rho_plus) == FLt(theta, FSub(One, rho_plus))
(* epsilon_plus = 1 - rho_plus - theta *)
EpsilonPlus(rho_plus, theta) == FSub(FSub(One, rho_plus), theta)
(* e_proximity_gap = 1 / pow(epsilon * rho, c_1) * L * pow(D, c_2) / F *)
ProximityGapConjectured(epsilon, rho, c_1, L, D, c_2, F) ==
    FDiv(FMul(FMul(FDiv(One, FPowInt(FMul(epsilon, rho), c_1)), FFromInt(L)),
              FPowInt(D, c_2)),
         F)
(* L_plus = math.ceil(pow(D / epsilon_plus, C_rho)) *)
LPlusConjectured(D, epsilon_plus, C_rho) == FCeil(FPowInt(FDiv(D, epsilon_plus), C_rho))

(***************************************************************************)
(* The kernel.                                                             *)
(*   nb      the notebook that is open: "main" or "UDR"                    *)
(*   lit     the literals written in the notebook's cells                  *)
(*   pc      the execution count of the next cell to run                   *)
(*   err     the exception that halted the run, or "none"                  *)
(*   ns      the namespace: the global names bound so far                  *)
(*   Out     what each cell displays: its last result or traceback         *)
(*   reruns  how often a section has been run again                        *)
(***************************************************************************)
VARIABLES nb, lit, pc, err, ns, Out, reruns
vars == <<nb, lit, pc, err, ns, Out, reruns>>

MaxK == 2
MaxH == 2
MaxS == 2
MaxM == 3
MaxReruns == 1

(* p = (1 << 32) - (1 << 27) + 1, the Baby Bear prime *)
BabyBear == NAdd(NSub(NShl(<<1>>, 32), NShl(<<1>>, 27)), <<1>>)
(* the literals of the constants cell of the main notebook *)
MainLiterals == [k |-> 2, h |-> 18, e |-> 4, p |-> BabyBear, C |-> 16 + 222 + 36, s |-> 50]
(* the literals of the constants cell of the unique decoding notebook *)
UDRLiterals == [k |-> 2, h |-> 20, e |-> 4, p |-> BabyBear, C |-> 16 + 222 + 36, s |-> 150]

(* epsilon = 0.05, and the other literals tried for it: the decimal
   literal n/d denotes the float nearest to n/d *)
Decimal(n, d) == FDiv(FFromInt(n), FFromInt(d))
Epsilons == {Decimal(1, 20), Decimal(3, 10)}
(* the literals m = 16 and epsilon = 0.05 of the main notebook *)
JohnsonLiterals == [m |-> 16, epsilon |-> Decimal(1, 20)]

(* the notebooks as they are written *)
WrittenLiterals == {MainLiterals @@ JohnsonLiterals, UDRLiterals @@ JohnsonLiterals}
(* small values of every literal, over the field of two elements *)
SmallLiterals ==
    {[k |-> k, h |-> h, e |-> 1, p |-> <<2>>, C |-> 0, s |-> s, m |-> m, epsilon |-> eps] :
        k \in 1..MaxK, h \in 1..MaxH, s \in 1..MaxS, m \in 1..MaxM, eps \in Epsilons}
(* the written notebooks with one literal edited *)
EditedLiterals ==
    {[MainLiterals @@ JohnsonLiterals EXCEPT !.h = 14, !.m = 2^13],
     [MainLiterals @@ JohnsonLiterals EXCEPT !.h = 13, !.k = 1, !.m = 2^12],
     [MainLiterals @@ JohnsonLiterals EXCEPT !.h = 5, !.C = 0, !.epsilon = Decimal(1, 10)],
     [UDRLiterals @@ JohnsonLiterals EXCEPT !.s = 250],
     [UDRLiterals @@ JohnsonLiterals EXCEPT !.k = 1, !.h = 4]}
Literals == WrittenLiterals \cup SmallLiterals \cup EditedLiterals

Notebooks == {"main", "UDR"}
(* execution counts of the cells; the last cell of each notebook *)
LastCell(n) == IF n = "main" THEN 10 ELSE 7
Cells == 2..10
(* the cells under the headings "Provable Soundness" and "Conjectured
   Soundness", from which a section is run again *)
SectionStarts(n) == IF n = "main" THEN {4, 8} ELSE {4}

NoOutput == [kind |-> "none", val |-> <<>>]
Result(v) == [kind |-> "result", val |-> v]
Traceback(name) == [kind |-> "error", val |-> name]
Bound(name) == name \in DOMAIN ns

Init ==
    /\ nb \in Notebooks
    /\ lit \in Literals
    /\ pc = 2
    /\ err = "none"
    /\ ns = [name \in {} |-> <<>>]
    /\ Out = [c \in Cells |-> NoOutput]
    /\ reruns = 0

(* a cell ran to its end: its assignments are bound, its last expression
   is displayed and the run moves on to the next cell *)
Finish(c, bindings, out) ==
    /\ ns' = bindings @@ ns
    /\ Out' = [Out EXCEPT ![c] = out]
    /\ pc' = c + 1
    /\ err' = "none"
    /\ UNCHANGED <<nb, lit, reruns>>
(* a cell raised: the assignments made before the raise stay bound, the
   traceback is displayed and the run halts at the cell *)
Raise(c, bindings, name) ==
    /\ ns' = bindings @@ ns
    /\ Out' = [Out EXCEPT ![c] = Traceback(name)]
    /\ pc' = c
    /\ err' = name
    /\ UNCHANGED <<nb, lit, reruns>>
Running(n, c) == nb = n /\ pc = c /\ err = "none"


(***************************************************************************)
(* The cells of risc0-security-analysis.ipynb.  Where a line of a cell     *)
(* uses what an earlier line assigned, the value is handed on as an        *)
(* argument.                                                               *)
(***************************************************************************)
ConstantsOf(rho, H) ==
    [k |-> lit.k, rho |-> rho, h |-> lit.h, H |-> H, D |-> DomainSize(H, rho),
     e |-> lit.e, p |-> lit.p, F |-> FieldSize(lit.p, lit.e), C |-> lit.C,
     L |-> NumColumns(lit.C), s |-> lit.s]
(* In [2]: the global constants *)
Constants ==
    /\ Running("main", 2)
    /\ Finish(2, ConstantsOf(Rho(lit.k), TraceLength(lit.h)), NoOutput)

JohnsonOf(alpha) == [m |-> lit.m, alpha |-> alpha, theta |-> Theta(alpha)]
(* In [3]: the Johnson-bound parameter m and the proximity parameter *)
Johnson ==
    /\ Running("main", 3)
    /\ Finish(3, JohnsonOf(Alpha(lit.m, ns.rho)), NoOutput)

FRIOf(e_proximity_gap, e_FRI_constant, e_FRI_queries) ==
    [e_proximity_gap |-> e_proximity_gap, e_FRI_constant |-> e_FRI_constant,
     e_FRI_queries |-> e_FRI_queries, e_FRI |-> FRIError(e_FRI_constant, e_FRI_queries)]
FRISteps(e_proximity_gap, theta) ==
    FRIOf(e_proximity_gap,
          FRIConstant(ns.L, e_proximity_gap, FoldTerm(ns.m, ns.rho, ns.h, ns.D, ns.F)),
          FRIQueries(theta, ns.s))
(* In [4]: the FRI error of the provable regime *)
ProvableFRI ==
    /\ Running("main", 4)
    /\ Finish(4, FRISteps(ProximityGap(ns.m, ns.rho, ns.D, ns.F), ns.theta), NoOutput)

MPlusChecked(c, rho_plus, m_plus) ==
    IF FIsZero(m_plus)
    THEN Raise(c, [rho_plus |-> rho_plus, m_plus |-> m_plus], "ZeroDivisionError")
    ELSE IF ~MPlusBound(ns.theta, rho_plus, m_plus)
    THEN Raise(c, [rho_plus |-> rho_plus, m_plus |-> m_plus], "AssertionError")
    ELSE Finish(c, [rho_plus |-> rho_plus, m_plus |-> m_plus], Result(m_plus))
MPlusDivided(c, rho_plus, divisor) ==
    IF FIsZero(divisor)
    THEN Raise(c, [rho_plus |-> rho_plus], "ZeroDivisionError")
    ELSE MPlusChecked(c, rho_plus, MPlus(divisor))
MPlusSteps(c, rho_plus) ==
    IF ~MNotTooLarge(ns.theta, rho_plus)
    THEN Raise(c, [rho_plus |-> rho_plus], "AssertionError")
    ELSE MPlusDivided(c, rho_plus, MPlusDivisor(ns.alpha, rho_plus))
(* In [5]: rho_plus, the check on m, and m_plus with its check *)
MPlusCell ==
    /\ Running("main", 5)
    /\ MPlusSteps(5, RhoPlus(ns.H, ns.D))

IOPLog(c, all) ==
    IF ~FLt(FZero, all.e_IOP)
    THEN Raise(c, all, "ValueError")
    ELSE Finish(c, all, Result(all.e_IOP))
IOPSum(c, L_plus, e_ALI, e_DEEP, e_PLONK, e_PLOOKUP) ==
    IOPLog(c, [L_plus |-> L_plus, e_ALI |-> e_ALI, e_DEEP |-> e_DEEP,
               e_PLONK |-> e_PLONK, e_PLOOKUP |-> e_PLOOKUP,
               e_IOP |-> IOPError(ns.e_FRI, e_ALI, e_DEEP, e_PLONK, e_PLOOKUP)])
IOPTerms(c, L_plus, e_ALI) ==
    IF FIsZero(DEEPDivisor(ns.H, ns.D, ns.F))
    THEN Raise(c, [L_plus |-> L_plus, e_ALI |-> e_ALI], "ZeroDivisionError")
    ELSE IOPSum(c, L_plus, e_ALI, DEEP(L_plus, ns.H, ns.D, ns.F),
                PLONK(ns.e, ns.H, ns.F), PLOOKUP(ns.e, ns.H, ns.F))
(* e_ALI ... math.log(e_IOP, 2): the lines that follow the assignment of
   L_plus in the cells that total the error *)
IOPSteps(c, L_plus) == IOPTerms(c, L_plus, ALI(L_plus, ns.C, ns.F))
(* In [6]: the total error of the provable regime *)
ProvableIOP ==
    /\ Running("main", 6)
    /\ IOPSteps(6, LPlus(ns.m_plus, ns.rho_plus))

(* show_table(): the six terms as the namespace holds them at the call *)
show_table ==
    << [Term |-> "e_FRI_constant", P |-> ns.e_FRI_constant],
       [Term |-> "e_FRI_queries", P |-> ns.e_FRI_queries],
       [Term |-> "e_ALI", P |-> ns.e_ALI],
       [Term |-> "e_DEEP", P |-> ns.e_DEEP],
       [Term |-> "e_PLONK", P |-> ns.e_PLONK],
       [Term |-> "e_PLOOKUP", P |-> ns.e_PLOOKUP] >>
Table(rows) == [kind |-> "table", val |-> rows]
NoBindings == [name \in {} |-> <<>>]
(* In [7]: defines show_table and calls it *)
ShowTable ==
    /\ Running("main", 7)
    /\ Finish(7, NoBindings, Table(show_table))

ConjecturedLiterals(epsilon, theta) ==
    [c_1 |-> 1, c_2 |-> 1, C_rho |-> 1, epsilon |-> epsilon, theta |-> theta]
ConjecturedOf(first, epsilon_plus) ==
    Finish(8, [epsilon_plus |-> epsilon_plus,
               L_plus |-> LPlusConjectured(ns.D, epsilon_plus, first.C_rho)]
              @@ FRISteps(ProximityGapConjectured(first.epsilon, ns.rho, first.c_1,
                                                  ns.L, ns.D, first.c_2, ns.F),
                          first.theta)
              @@ first,
           Result(LPlusConjectured(ns.D, epsilon_plus, first.C_rho)))
ConjecturedSteps(first) ==
    IF ~EpsilonNotTooSmall(first.theta, ns.rho_plus)
    THEN Raise(8, first, "AssertionError")
    ELSE ConjecturedOf(first, EpsilonPlus(ns.rho_plus, first.theta))
(* In [8]: the FRI error of the conjectured regime *)
ConjecturedFRI ==
    /\ Running("main", 8)
    /\ ConjecturedSteps(ConjecturedLiterals(lit.epsilon, ThetaConjectured(ns.rho, lit.epsilon)))

(* In [9]: the total error of the conjectured regime *)
ConjecturedIOP ==
    /\ Running("main", 9)
    /\ IOPSteps(9, ns.L_plus)

(* In [10]: show_table() called again *)
ShowTableAgain ==
    /\ Running("main", 10)
    /\ Finish(10, NoBindings, Table(show_table))

(***************************************************************************)
(* The cells of risc0-security-analysis-UDR.ipynb.                         *)
(***************************************************************************)
(* In [103]: the global constants *)
UDRConstants ==
    /\ Running("UDR", 2)
    /\ Finish(2, ConstantsOf(Rho(lit.k), TraceLength(lit.h)), NoOutput)

(* In [104]: m, alpha = 1 - (1 - rho)/2 and theta *)
UDRJohnson ==
    /\ Running("UDR", 3)
    /\ Finish(3, JohnsonOf(AlphaUDR(ns.rho)), NoOutput)

UDRFRISteps(e_proximity_gap) ==
    FRIOf(e_proximity_gap, FRIConstantUDR(ns.L, e_proximity_gap), FRIQueries(ns.theta, ns.s))
(* In [105]: the FRI error of the unique decoding regime *)
UDRFRI ==
    /\ Running("UDR", 4)
    /\ Finish(4, UDRFRISteps(ProximityGapUDR(ns.D, ns.F)), NoOutput)

(* In [106]: rho_plus and m_plus with the two assertions of the main
   notebook, which the cell marks "todo adjust" *)
UDRMPlusCell ==
    /\ Running("UDR", 5)
    /\ MPlusSteps(5, RhoPlus(ns.H, ns.D))

(* L_plus = 1 *)
LPlusUDR == One
(* In [107]: the total error of the unique decoding regime *)
UDRIOP ==
    /\ Running("UDR", 6)
    /\ IOPSteps(6, LPlusUDR)

(* In [108]: defines show_table and calls it *)
UDRShowTable ==
    /\ Running("UDR", 7)
    /\ Finish(7, NoBindings, Table(show_table))

(* A section is run again from its first cell: the kernel, its namespace
   and the displayed outputs stay as they are *)
Rerun(j) ==
    /\ j \in SectionStarts(nb)
    /\ pc > j
    /\ reruns < MaxReruns
    /\ pc' = j
    /\ err' = "none"
    /\ reruns' = reruns + 1
    /\ UNCHANGED <<nb, lit, ns, Out>>

Next ==
    \/ Constants
    \/ Johnson
    \/ ProvableFRI
    \/ MPlusCell
    \/ ProvableIOP
    \/ ShowTable
    \/ ConjecturedFRI
    \/ ConjecturedIOP
    \/ ShowTableAgain
    \/ UDRConstants
    \/ UDRJohnson
    \/ UDRFRI
    \/ UDRMPlusCell
    \/ UDRIOP
    \/ UDRShowTable
    \/ \E j \in Cells : Rerun(j)

Spec == Init /\ [][Next]_vars

(***************************************************************************)
(* The provable section of the main notebook, run for a range of Johnson   *)
(* parameters: the literal m of In [3] is edited and In [2] .. In [7] are  *)
(* run in a fresh kernel.                                                  *)
(***************************************************************************)
MaxJohnson == 20
(* trace lengths 2^h around the steps of math.floor((h + 2) / 4 - 2) *)
FoldHeights == {5, 6, 9, 10}
SweepLiterals ==
    {[MainLiterals @@ JohnsonLiterals EXCEPT !.m = m] : m \in 1..MaxJohnson}
    \cup {[MainLiterals @@ JohnsonLiterals EXCEPT !.h = h, !.C = 0, !.m = m] :
              h \in FoldHeights, m \in 1..MaxM}
    \cup {[k |-> k, h |-> h, e |-> 1, p |-> <<2>>, C |-> 0, s |-> 1, m |-> m,
           epsilon |-> Decimal(1, 20)] :
              k \in 1..MaxK, h \in (1..MaxH) \cup FoldHeights, m \in 1..MaxM}
    \cup {[MainLiterals @@ JohnsonLiterals EXCEPT !.s = 1200],
          [MainLiterals @@ JohnsonLiterals EXCEPT !.h = 26, !.e = 1, !.m = 2^25]}

JohnsonInit ==
    /\ nb = "main"
    /\ lit \in SweepLiterals
    /\ pc = 2
    /\ err = "none"
    /\ ns = [name \in {} |-> <<>>]
    /\ Out = [c \in Cells |-> NoOutput]
    /\ reruns = 0

JohnsonNext ==
    \/ Constants
    \/ Johnson
    \/ ProvableFRI
    \/ MPlusCell
    \/ ProvableIOP
    \/ ShowTable

JohnsonSweep == JohnsonInit /\ [][JohnsonNext]_vars

(***************************************************************************)
(* Properties of the notebooks.                                            *)
(***************************************************************************)
(* the provable regime of the main notebook, before the conjectured cell
   has assigned theta *)
ProvableRun == nb = "main" /\ Bound("theta") /\ ~Bound("epsilon")
(* does the integer n >= 1, as m_plus, satisfy the bound of the second
   assertion of In [5]? *)
SatisfiesBound(n) == ~FIsZero(n) /\ MPlusBound(ns.theta, ns.rho_plus, n)

(* C1: m_plus minimality.  Whenever m passed the check theta < 1 -
   sqrt(rho_plus) and the provable regime has computed m_plus by the closed
   form, m_plus satisfies theta <= 1 - sqrt(rho_plus) * (1 + 1/(2*m_plus))
   and m_plus - 1 does not. *)
C1_MPlusMinimal ==
    (ProvableRun /\ Bound("m_plus"))
        => /\ SatisfiesBound(ns.m_plus)
           /\ ~SatisfiesBound(FSub(ns.m_plus, One))

(* C2: constraint enforcement in the provable regime.  Whenever theta = 1 -
   (1 + 1/(2*m)) * sqrt(rho) is at least 1 - sqrt(rho_plus), the run never
   gets past In [5]: the cell displays an AssertionError once it has run,
   m_plus and L_plus are never assigned, and neither the total error e_IOP
   nor its logarithm nor a table is ever produced. *)
C2_ProvableConstraintEnforced ==
    (nb = "main" /\ Bound("alpha")
            /\ FLe(FSub(One, FSqrt(RhoPlus(ns.H, ns.D))), FSub(One, ns.alpha)))
        => /\ pc <= 5
           /\ ~Bound("m_plus") /\ ~Bound("L_plus") /\ ~Bound("e_IOP")
           /\ Out[6] = NoOutput /\ Out[7] = NoOutput
           /\ Bound("rho_plus") => Out[5] = Traceback("AssertionError")
(* In [5] has halted the run on the first assertion *)
C2_Witness ==
    /\ nb = "main" /\ pc = 5 /\ err = "AssertionError"
    /\ Bound("rho_plus") /\ ~Bound("m_plus")
    /\ FLe(FSub(One, FSqrt(ns.rho_plus)), FSub(One, ns.alpha))

(* C3: constraint enforcement in the conjectured regime.  Whenever theta =
   1 - rho - epsilon is at least 1 - rho_plus, the run never gets past
   In [8]: the cell displays an AssertionError once it has run, and
   neither epsilon_plus nor a conjectured L_plus, error term, total or
   table is produced; the total of the conjectured regime is displayed
   only when theta < 1 - rho_plus. *)
C3_ConjecturedConstraintEnforced ==
    /\ (nb = "main" /\ Bound("rho_plus")
            /\ FLe(FSub(One, ns.rho_plus), ThetaConjectured(ns.rho, lit.epsilon)))
        => /\ pc <= 8
           /\ ~Bound("epsilon_plus")
           /\ Out[8] # NoOutput => Out[8] = Traceback("AssertionError")
           /\ Out[9] = NoOutput /\ Out[10] = NoOutput
    /\ (nb = "main" /\ Out[9].kind = "result")
        => /\ ns.theta = ThetaConjectured(ns.rho, lit.epsilon)
           /\ FLt(ns.theta, FSub(One, ns.rho_plus))
(* In [8] has halted the run on its assertion, after the provable regime
   had displayed its total *)
C3_Witness ==
    /\ nb = "main" /\ pc = 8 /\ err = "AssertionError"
    /\ Out[6].kind = "result" /\ Bound("epsilon") /\ ~Bound("epsilon_plus")
    /\ FLe(FSub(One, ns.rho_plus), ns.theta)


(* a cell that totals the error has just displayed its result: the report
   of a regime *)
Reported == Bound("e_IOP") /\ err = "none" /\ pc \in {7, 10}

(* C4: monotonicity in the queries.  For a report of any regime with a
   proximity parameter 0 < theta < 1, the same evaluation with s + 1
   queries has a strictly smaller FRI_QUERIES = (1 - theta)^s and a
   strictly smaller total e_IOP, that is strictly more bits. *)
C4_MoreQueriesMoreBits ==
    (Reported /\ reruns = 0 /\ FLt(FZero, ns.theta) /\ FLt(ns.theta, One))
        => /\ FLt(FRIQueries(ns.theta, ns.s + 1), ns.e_FRI_queries)
           /\ FLt(IOPError(FRIError(ns.e_FRI_constant, FRIQueries(ns.theta, ns.s + 1)),
                           ns.e_ALI, ns.e_DEEP, ns.e_PLONK, ns.e_PLOOKUP),
                  ns.e_IOP)

(* C5: the list size of the unique decoding regime.  For every setting of
   the literals the unique decoding notebook runs without an exception,
   displays its total, and the list size it uses for ALI and DEEP is 1. *)
C5_UDRAlwaysReports ==
    nb = "UDR"
        => /\ err = "none"
           /\ Bound("L_plus") => ns.L_plus = One
           /\ pc >= 7 => Out[6].kind = "result"

(* C6: the six error terms are probabilities.  Whenever a regime has
   displayed its total, each of FRI_CONSTANT, FRI_QUERIES, ALI, DEEP,
   PLONK and PLOOKUP is greater than 0 and at most 1: a run in which one
   of them is not positive ends in an exception and displays no total. *)
C6_TermsAreProbabilities ==
    Reported
        => \A i \in 1..6 : FLt(FZero, show_table[i].P) /\ FLe(show_table[i].P, One)


(* C7, as the specification states it: once the constants are assigned,
   D > H and 0 < rho_plus < 1 for rho_plus = (H + 2) / D. *)
C7_DerivedQuantitiesBelowOne ==
    Bound("D")
        => /\ FLt(FFromInt(ns.H), ns.D)
           /\ FLt(FZero, FDiv(FFromInt(ns.H + 2), ns.D))
           /\ FLt(FDiv(FFromInt(ns.H + 2), ns.D), One)
(* C7: the derived quantities.  Once the constants are assigned, D > H and
   0 < rho_plus <= 1 for rho_plus = (H + 2) / D, where rho_plus = 1 exactly
   for k = 1 and h = 1; In [5] assigns this value to rho_plus. *)
C7_DerivedQuantities ==
    Bound("D")
        => /\ FLt(FFromInt(ns.H), ns.D)
           /\ FLt(FZero, FDiv(FFromInt(ns.H + 2), ns.D))
           /\ FLe(FDiv(FFromInt(ns.H + 2), ns.D), One)
           /\ FDiv(FFromInt(ns.H + 2), ns.D) = One <=> (lit.k = 1 /\ lit.h = 1)
           /\ Bound("rho_plus") => ns.rho_plus = FDiv(FFromInt(ns.H + 2), ns.D)
(* In [5] has assigned rho_plus = 1 *)
C7_Witness == Bound("rho_plus") /\ lit.k = 1 /\ lit.h = 1 /\ ns.rho_plus = One

(* e * n * H / F from the literals e, h and p alone *)
ClosedForm(n, e, h, p) == FDiv(FFromInt(e * n * 2^h), FPowInt(FRound(0, p, 0), e))
(* C8: regime independence.  In every regime of both notebooks, whatever
   m, m_plus, L_plus, epsilon, s, k and C are, the terms e_PLONK and
   e_PLOOKUP that are assigned, and those a table displays, are e*5*H/F and
   e*15*H/F as the literals e, h and p alone give them. *)
C8_PlonkAndPlookupOfEHF ==
    /\ Bound("e_PLONK")
        => /\ ns.e_PLONK = ClosedForm(5, lit.e, lit.h, lit.p)
           /\ ns.e_PLOOKUP = ClosedForm(15, lit.e, lit.h, lit.p)
    /\ \A c \in Cells :
        Out[c].kind = "table"
            => /\ Out[c].val[5] = [Term |-> "e_PLONK", P |-> ClosedForm(5, lit.e, lit.h, lit.p)]
               /\ Out[c].val[6] = [Term |-> "e_PLOOKUP", P |-> ClosedForm(15, lit.e, lit.h, lit.p)]
(* both regimes of the main notebook have displayed their tables, which
   differ in other terms *)
C8_Witness ==
    /\ nb = "main" /\ Out[7].kind = "table" /\ Out[10].kind = "table"
    /\ Out[7].val # Out[10].val
    /\ Out[7].val[5] = Out[10].val[5] /\ Out[7].val[6] = Out[10].val[6]

(* C9: determinism and no shared state.  Once In [5] or In [6] of the
   provable regime has displayed a result, running the cell again, with
   any cells of the conjectured regime run in between, displays the same
   result. *)
C9_RerunSameReport ==
    [][\A c \in 5..6 : (nb = "main" /\ Out[c].kind = "result") => Out'[c] = Out[c]]_vars

(* scenario C: the unique decoding notebook with k = 2, h = 20, e = 4,
   p = 2^32 - 2^27 + 1, C = 274, s = 150, after it has totalled the error *)
ScenarioC ==
    /\ nb = "UDR" /\ Bound("e_IOP")
    /\ lit.k = 2 /\ lit.h = 20 /\ lit.e = 4 /\ lit.C = 274 /\ lit.s = 150
    /\ lit.p = NAdd(NSub(NShl(<<1>>, 32), NShl(<<1>>, 27)), <<1>>)
(* C10, as the specification states it: scenario C totals 99.289 bits,
   2^-99.299 < e_IOP < 2^-99.279. *)
C10_ScenarioCNear99Bits ==
    ScenarioC
        => /\ FLt([sgn |-> 0, man |-> <<28713, 15116, 2647, 208>>, exp |-> -152], ns.e_IOP)
           /\ FLt(ns.e_IOP, [sgn |-> 0, man |-> <<18037, 21598, 32292, 210>>, exp |-> -152])
(* C10: scenario C.  The unique decoding notebook with the literals of
   scenario C uses L_plus = 1, displays e_IOP = e_FRI + e_ALI + e_DEEP +
   e_PLONK + e_PLOOKUP, and totals 97.506 bits: 2^-97.507 < e_IOP < 2^-97.505. *)
C10_ScenarioC ==
    ScenarioC
        => /\ ns.L_plus = One
           /\ ns.e_IOP = IOPError(ns.e_FRI, ns.e_ALI, ns.e_DEEP, ns.e_PLONK, ns.e_PLOOKUP)
           /\ FLt([sgn |-> 0, man |-> <<10187, 26414, 4690, 180>>, exp |-> -150], ns.e_IOP)
           /\ FLt(ns.e_IOP, [sgn |-> 0, man |-> <<2901, 22301, 12879, 180>>, exp |-> -150])
           /\ pc >= 7 => Out[6] = Result(ns.e_IOP)
(* scenario C has displayed its total *)
C10_Witness == ScenarioC /\ pc = 7 /\ err = "none" /\ Out[6].kind = "result"

(* scenario A: the main notebook as written, k = 2, h = 18, e = 4,
   p = 2^32 - 2^27 + 1, C = 274, s = 50, m = 16, after the provable regime
   has totalled the error *)
ScenarioA ==
    /\ nb = "main" /\ Bound("e_IOP") /\ ~Bound("epsilon")
    /\ lit.k = 2 /\ lit.h = 18 /\ lit.e = 4 /\ lit.C = 274 /\ lit.s = 50 /\ lit.m = 16
    /\ lit.p = NAdd(NSub(NShl(<<1>>, 32), NShl(<<1>>, 27)), <<1>>)
(* 2^-100 *)
TwoToMinus100 == [sgn |-> 0, man |-> <<1>>, exp |-> -100]
(* C11: scenario A.  The provable regime with the literals of scenario A
   displays m_plus = 17 and totals 47.495 bits within 0.01, 2^-47.505 <
   e_IOP < 2^-47.485; e_FRI_queries, about 2^-47.780, is the largest of the
   six terms and e_FRI_constant, about 2^-49.975, the second largest; e_ALI,
   e_DEEP, e_PLONK and e_PLOOKUP are all below 2^-100. *)
C11_ScenarioA ==
    ScenarioA
        => /\ ns.m_plus = FFromInt(17) /\ Out[5] = Result(FFromInt(17))
           /\ FLt([sgn |-> 0, man |-> <<2869, 22301, 12879, 180>>, exp |-> -100], ns.e_IOP)
           /\ FLt(ns.e_IOP, [sgn |-> 0, man |-> <<29793, 31426, 23848, 45>>, exp |-> -98])
           /\ FLt([sgn |-> 0, man |-> <<17091, 23558, 32197, 148>>, exp |-> -100], ns.e_FRI_queries)
           /\ FLt(ns.e_FRI_queries, [sgn |-> 0, man |-> <<16853, 8640, 21255, 18>>, exp |-> -97])
           /\ FLt([sgn |-> 0, man |-> <<2663, 2598, 4822, 130>>, exp |-> -102], ns.e_FRI_constant)
           /\ FLt(ns.e_FRI_constant, [sgn |-> 0, man |-> <<10783, 8392, 10738, 130>>, exp |-> -102])
           /\ FLt(ns.e_FRI_constant, ns.e_FRI_queries)
           /\ \A t \in {ns.e_ALI, ns.e_DEEP, ns.e_PLONK, ns.e_PLOOKUP} :
                  FLt(t, TwoToMinus100) /\ FLt(t, ns.e_FRI_constant)
           /\ pc >= 7 => Out[6] = Result(ns.e_IOP)
(* scenario A has displayed its total and its table *)
C11_Witness ==
    /\ ScenarioA /\ pc = 8 /\ err = "none"
    /\ Out[6].kind = "result" /\ Out[7] = Table(show_table)

(* the literals of scenario A with any Johnson parameter m, after the
   provable regime has totalled the error *)
ScenarioAAnyM ==
    /\ nb = "main" /\ Bound("e_IOP") /\ ~Bound("epsilon")
    /\ lit.k = 2 /\ lit.h = 18 /\ lit.e = 4 /\ lit.C = 274 /\ lit.s = 50
    /\ lit.p = NAdd(NSub(NShl(<<1>>, 32), NShl(<<1>>, 27)), <<1>>)
(* e_IOP as In [4] and In [6] total it when the Johnson parameter is m and
   the list size is L_plus, the other names as the namespace holds them *)
TotalWith(m, L_plus) ==
    IOPError(FRIError(FRIConstant(ns.L, ProximityGap(m, ns.rho, ns.D, ns.F),
                                  FoldTerm(m, ns.rho, ns.h, ns.D, ns.F)),
                      FRIQueries(Theta(Alpha(m, ns.rho)), ns.s)),
             ALI(L_plus, ns.C, ns.F), DEEP(L_plus, ns.H, ns.D, ns.F),
             PLONK(ns.e, ns.H, ns.F), PLOOKUP(ns.e, ns.H, ns.F))
(* e_IOP of the provable regime when the literal of In [3] is m *)
TotalAt(m) ==
    TotalWith(m, LPlus(MPlus(MPlusDivisor(Alpha(m, ns.rho), ns.rho_plus)), ns.rho_plus))
(* C12: optimality of the Johnson parameter.  With the literals of scenario
   A, whatever m of 1 .. MaxJohnson In [3] assigns, the total error the
   provable regime displays is the one In [3] .. In [6] compute from m, it is
   at least the total error for m = 16, and for m < 16 it is strictly
   larger: m = 16 has the most bits and no smaller m has as many. *)
C12_SixteenIsOptimal ==
    ScenarioAAnyM
        => /\ ns.e_IOP = TotalAt(lit.m)
           /\ FLe(TotalAt(16), ns.e_IOP)
           /\ lit.m < 16 => FLt(TotalAt(16), ns.e_IOP)
(* the provable regime has totalled the error for m = 17, next to the
   optimum *)
C12_Witness ==
    /\ ScenarioAAnyM /\ lit.m = 17 /\ pc >= 7 /\ Out[6] = Result(ns.e_IOP)
    /\ FLt(TotalAt(16), ns.e_IOP)

(* e_FRI_constant of In [4] when the Johnson parameter is m *)
FRIConstantAt(m) ==
    FRIConstant(ns.L, ProximityGap(m, ns.rho, ns.D, ns.F),
                FoldTerm(m, ns.rho, ns.h, ns.D, ns.F))
(* e_FRI_queries of In [4] when the Johnson parameter is m *)
FRIQueriesAt(m) == FRIQueries(Theta(Alpha(m, ns.rho)), ns.s)
(* C13: trade-off in m.  Once In [4] of the provable regime has run with
   the Johnson parameter m, a larger parameter, m + 1 or 2 * m, with the
   other literals unchanged, gives a strictly larger e_FRI_constant and a
   strictly smaller e_FRI_queries; this for every h >= 1, the heights below
   6 included. *)
C13_TradeOffInM ==
    (nb = "main" /\ Bound("e_FRI_queries") /\ ~Bound("epsilon"))
        => /\ ns.e_FRI_constant = FRIConstantAt(lit.m)
           /\ ns.e_FRI_queries = FRIQueriesAt(lit.m)
           /\ \A m2 \in {2 * lit.m, lit.m + 1} :
                  /\ FLt(ns.e_FRI_constant, FRIConstantAt(m2))
                  /\ FLt(FRIQueriesAt(m2), ns.e_FRI_queries)

(* In [5] of the provable regime has assigned rho_plus and m has passed the
   check theta < 1 - sqrt(rho_plus) *)
MPassed ==
    /\ nb = "main" /\ ~Bound("epsilon") /\ Bound("rho_plus")
    /\ MNotTooLarge(ns.theta, ns.rho_plus)
(* C14: for every m that passes the check theta < 1 - sqrt(rho_plus), the
   divisor 2 * (alpha / sqrt(rho_plus) - 1) of the closed form is strictly
   positive, no ZeroDivisionError is raised, m_plus is computed and is an
   integer with m_plus >= m + 1, and L_plus = (m_plus + 1/2) / sqrt(rho_plus),
   once assigned, is strictly positive. *)
C14_MPlusAboveM ==
    MPassed
        => /\ FLt(FZero, MPlusDivisor(ns.alpha, ns.rho_plus))
           /\ err # "ZeroDivisionError"
           /\ Bound("m_plus")
           /\ ns.m_plus = MPlus(MPlusDivisor(ns.alpha, ns.rho_plus))
           /\ FIsInt(ns.m_plus) /\ FLe(FFromInt(lit.m + 1), ns.m_plus)
           /\ Bound("L_plus") => /\ ns.L_plus = LPlus(ns.m_plus, ns.rho_plus)
                                 /\ FLt(FZero, ns.L_plus)
(* m = 16 has passed the check, m_plus = 17 is one more than m and L_plus
   has been assigned *)
C14_Witness ==
    /\ MPassed /\ lit.m = 16 /\ Bound("L_plus") /\ ns.m_plus = FFromInt(17)
    /\ Out[5] = Result(ns.m_plus)

(* (1 + 1/(2*m))^2 * H > H + 2, in integers: (2*m + 1)^2 * H > (H + 2) * (2*m)^2 *)
SquaredCheck(m, H) ==
    NCmp(NMul(NMul(NFromInt(2 * m + 1), NFromInt(2 * m + 1)), NFromInt(H)),
         NMul(NFromInt(H + 2), NMul(NFromInt(2 * m), NFromInt(2 * m)))) = 1
(* does the Johnson parameter m pass the first check of In [5]? *)
Passes(m) == MNotTooLarge(Theta(Alpha(m, ns.rho)), ns.rho_plus)
(* C15: the Johnson parameters accepted by the first check of In [5] are
   downward closed and bounded.  Once In [5] has assigned rho_plus, m passes
   theta < 1 - sqrt(rho_plus) exactly when (1 + 1/(2*m))^2 * H > H + 2 (and
   the cell halts on the first assertion exactly when it does not); if m
   passes, every m' of 1 .. m - 1 passes; and m >= H/2 + 1 does not pass. *)
C15_AcceptedMDownwardClosed ==
    (nb = "main" /\ ~Bound("epsilon") /\ Bound("rho_plus"))
        => /\ Passes(lit.m) <=> SquaredCheck(lit.m, ns.H)
           /\ Passes(lit.m) <=> Bound("m_plus")
           /\ Passes(lit.m) => \A m1 \in 1..(lit.m - 1) : Passes(m1)
           /\ 2 * lit.m >= ns.H + 2 => ~Passes(lit.m)

(* the folding term of In [4] as the namespace gives it *)
e_fold == FoldTerm(ns.m, ns.rho, ns.h, ns.D, ns.F)
(* (L - 1/2) * (m + 1/2)^7 * D^2 / (3 * rho) + (2*m + 1) * (D + 1) * 16 * f
   > 0 for the integer f = floor((h + 2)/4 - 2), multiplied by 3 * 2^8 /
   (2*m + 1): (2*L - 1) * (2*m + 1)^6 * D^2 * 2^k > 3 * 2^12 * (D + 1) * (-f) *)
ExactlyPositive(k, h, m, L, f) ==
    f < 0 => NCmp(NMul(NMul(NFromInt(2 * L - 1), NPow(NFromInt(2 * m + 1), 6)),
                       NShl(<<1>>, 2 * (h + k) + k)),
                  NMul(NFromInt(3 * 2^12 * (0 - f)), NFromInt(2^(h + k) + 1))) = 1
(* C16: in the provable regime e_FRI_constant = (L - 1/2) * e_proximity_gap
   + e_fold is strictly positive for every parameter set, although e_fold
   is negative for h < 6 and zero for 6 <= h <= 9; and (L - 1/2) * (m +
   1/2)^7 * D^2 / (3 * rho) + (2*m + 1) * (D + 1) * 16 * floor((h + 2)/4 -
   2) > 0. *)
C16_FRIConstantPositive ==
    (nb = "main" /\ Bound("e_FRI_constant") /\ ~Bound("epsilon"))
        => /\ ns.e_FRI_constant = FRIConstant(ns.L, ns.e_proximity_gap, e_fold)
           /\ FLt(FZero, ns.e_FRI_constant)
           /\ ns.h < 6 => FLt(e_fold, FZero)
           /\ ns.h \in 6..9 => FIsZero(e_fold)
           /\ ns.h > 9 => FLt(FZero, e_fold)
           /\ ExactlyPositive(ns.k, ns.h, ns.m, ns.L, ((ns.h + 2) \div 4) - 2)
(* In [4] has run with h = 1, k = 1, m = 1, C = 0, where the folding term
   is negative and largest against the proximity term *)
C16_Witness ==
    /\ nb = "main" /\ Bound("e_FRI_constant") /\ ~Bound("epsilon")
    /\ lit.h = 1 /\ lit.k = 1 /\ lit.m = 1 /\ lit.C = 0
    /\ FLt(e_fold, FZero) /\ FLt(FZero, ns.e_FRI_constant)

(* In [8] of the conjectured regime is the last cell to have assigned
   theta: it has halted on its assertion or has run to its end *)
ConjecturedRun ==
    /\ nb = "main" /\ Bound("epsilon")
    /\ pc > 8 \/ (pc = 8 /\ err = "AssertionError")
(* C17: in the conjectured regime the check theta < 1 - rho_plus passes,
   and In [8] runs to its end, exactly when epsilon > 2/D; whenever it
   passes, epsilon_plus = 1 - rho_plus - theta equals epsilon - 2/D, is
   strictly positive and is below epsilon, and L_plus = ceil((D /
   epsilon_plus)^C_rho) is an integer >= 1. *)
C17_EpsilonPlus ==
    ConjecturedRun
        => /\ EpsilonNotTooSmall(ns.theta, ns.rho_plus) <=> FLt(FDiv(Two, ns.D), ns.epsilon)
           /\ EpsilonNotTooSmall(ns.theta, ns.rho_plus) <=> pc > 8
           /\ pc > 8 => /\ ns.epsilon_plus = FSub(ns.epsilon, FDiv(Two, ns.D))
                        /\ FLt(FZero, ns.epsilon_plus)
                        /\ FLt(ns.epsilon_plus, ns.epsilon)
                        /\ FIsInt(ns.L_plus) /\ FLe(One, ns.L_plus)
                        /\ Out[8] = Result(ns.L_plus)

====
